---------------------------- MODULE Spec2Model ----------------------------
(***************************************************************************)
(* Model of src/Media.py: the Media endpoint (controller side, running in  *)
(* the parent process), its worker process (Media.run), the duplex pipe    *)
(* between them, and the RTP packet codec.                                 *)
(*                                                                         *)
(* Optional Python values are modelled as sequences: None is << >> and a   *)
(* value v is <<v>>.  32-bit unsigned fields are modelled as pairs         *)
(* <<hi, lo>> of 16-bit halves.                                            *)
(***************************************************************************)
EXTENDS Integers, Sequences, FiniteSets, TLC

VARIABLES
    \* ---- Media object, parent-process side
    ctl,           \* where the caller is: "ctor" (blocked in pipe.recv, line 39),
                   \* "idle" (constructed, between calls), "wait" (blocked in
                   \* wait(), line 86), "raised" (the constructor raised)
    localport,     \* self.localport in the parent
    remoteip,      \* self.remoteip   (None or <<ip>>)
    remoteport,    \* self.remoteport (None or <<port>>)
    transmitting,  \* self.transmitting
    offer,         \* last value returned by the localoffer property
    lastcall,      \* the caller's last call: the method, the exception it
                   \* raised and the return path it took
    raised,        \* the exception the constructor raised (None or <<msg>>)
    \* ---- multiprocessing.Pipe()
    toWorker,      \* messages sent on self.pipe, not yet received on childpipe
    toCtl,         \* messages sent on self.childpipe, not yet received on pipe
    \* ---- worker process (Media.run)
    wstate,        \* "BINDING", "WAITING_REMOTE", "RUNNING", "STOPPED",
                   \* "BIND_FAILED", "CRASHED" (uncaught exception)
    wlocalport,    \* self.localport in the child
    remoteaddr,    \* local variable remoteaddr of run()
    wakeuptime,    \* local variable wakeuptime of run()
    sockin,        \* number of datagrams queued on the UDP socket
    sent,          \* destinations of the datagrams sent so far, in order
    \* ---- constructor arguments and environment
    rtpkind,       \* the rtp argument: "none", "stream" (RTPStream), "random"
    localip,       \* the localip argument
    now,           \* time.monotonic(), in ticks
    \* ---- history
    wlog,          \* every message the worker has sent, in order
    clog,          \* every message the controller has sent, in order
    wrecv,         \* every message the worker has received, in order
    nwaitret,      \* number of wait() calls that have returned
    narrived,      \* number of datagrams that have arrived on the socket
    \* ---- RTP codec
    pkt,           \* an RTP object
    buf,           \* result of pkt.tobytes()
    dec,           \* result of RTP.frombytes(buf)
    rphase,        \* "new", "encoded", "decoded", "raised"
    \* ---- RTPStream and its subclasses
    stream,        \* the attributes of a stream object (None before __init__);
                   \* with an endpoint, the worker's self.rtp
    sphase,        \* "new" (not constructed), "ready", "raised"
    sexc,          \* the exception raised by the constructor (None or <<e>>)
    lastpkt,       \* what the last nextpacket() returned (None or <<r>>)
    nadv,          \* number of nextparams() advances made so far
    seq0           \* the sequence number the constructor left

mediavars == <<ctl, localport, remoteip, remoteport, transmitting, offer,
               lastcall, raised, toWorker, toCtl, wstate, wlocalport,
               remoteaddr, wakeuptime, sockin, sent, rtpkind, localip, now,
               wlog, clog, wrecv, nwaitret, narrived>>
rtpvars == <<pkt, buf, dec, rphase>>
streamvars == <<stream, sphase, sexc, lastpkt, nadv, seq0>>
vars == <<mediavars, rtpvars, streamvars>>

-----------------------------------------------------------------------------
(* Bounds of the model *)
MaxStops == 2
MaxWaits == 2
MaxInbound == 1
MaxSent == 2
MaxTime == 3

(* Period of a stream in clock ticks of 10 ms: period = 0.020 *)
Period == 2

None == << >>
Some(v) == <<v>>

-----------------------------------------------------------------------------
(* Constructor arguments used by the model *)
LocalIps == {"127.0.0.1", "192.0.2.1", "256.1.1.1"}
Owner == "0.0.0.0"
RequestedPorts == {0, 5004, 70000}
EphemeralPorts == {40000, 40001}
RtpKinds == {"none", "stream", "random"}

(* Messages on the pipe.  A pickled Python object is modelled as a record  *)
(* tagged with its type.                                                   *)
NoneMsg == [kind |-> "None"]
IntMsg(n) == [kind |-> "int", val |-> n]
ExcMsg(text) == [kind |-> "Exception", text |-> text]
AddrMsg(ip, port) == [kind |-> "tuple", ip |-> ip, port |-> port]

(* RTPStream.defaultcodecs: payload type -> (codecname, codecformat) *)
defaultcodecs ==
    << [pt |-> 0,  name |-> Some("PCMU/8000"),   fmt |-> None],
       [pt |-> 3,  name |-> Some("GSM/8000"),    fmt |-> None],
       [pt |-> 4,  name |-> Some("G723/8000"),   fmt |-> None],
       [pt |-> 5,  name |-> Some("DVI4/8000"),   fmt |-> None],
       [pt |-> 6,  name |-> Some("DVI4/16000"),  fmt |-> None],
       [pt |-> 7,  name |-> Some("LPC/8000"),    fmt |-> None],
       [pt |-> 8,  name |-> Some("PCMA/8000"),   fmt |-> None],
       [pt |-> 9,  name |-> Some("G722/8000"),   fmt |-> None],
       [pt |-> 10, name |-> Some("L16/44100/2"), fmt |-> None],
       [pt |-> 11, name |-> Some("L16/44100/1"), fmt |-> None],
       [pt |-> 12, name |-> Some("QCELP/8000"),  fmt |-> None],
       [pt |-> 13, name |-> Some("CN/8000"),     fmt |-> None],
       [pt |-> 14, name |-> Some("MPA/90000"),   fmt |-> None],
       [pt |-> 15, name |-> Some("G728/8000"),   fmt |-> None],
       [pt |-> 16, name |-> Some("DVI4/11025"),  fmt |-> None],
       [pt |-> 17, name |-> Some("DVI4/22050"),  fmt |-> None],
       [pt |-> 18, name |-> Some("G729/8000"),   fmt |-> None] >>

(* self.codecs as set by Media.__init__: the whole default table when rtp  *)
(* is None, else the one codec of the stream.  The streams of the model    *)
(* are RTPStream(PT=8, ...) and                                            *)
(* RTPRandomStream(PT=96, codecname='opus/48000', codecformat='stereo=1'). *)
codecs(kind) ==
    IF kind = "none" THEN defaultcodecs
    ELSE IF kind = "stream"
         THEN << [pt |-> 8, name |-> Some("PCMA/8000"), fmt |-> None] >>
         ELSE << [pt |-> 96, name |-> Some("opus/48000"),
                  fmt |-> Some("stereo=1")] >>

(* A source that never reports eof *)
eofNever(kind) == FALSE

(* self.rtp.eof: RTPStream.__init__ sets eof = True, RTPRandomStream       *)
(* resets it to False and nothing sets it afterwards.                      *)
eof(kind) == kind # "random"

-----------------------------------------------------------------------------
(* Media.localoffer *)

SessionIds == { <<0, 0>>, <<65535, 65535>> }


HasName(c) == c.name # None
HasFmt(c) == c.fmt # None

localofferLines(sid, ip, port, cs) ==
    << [tag |-> "v=", val |-> "0"],
       [tag |-> "o=", sid |-> sid, owner |-> Owner],
       [tag |-> "s=", val |-> "-"],
       [tag |-> "c=", ip |-> ip],
       [tag |-> "t=", val |-> "0 0"],
       [tag |-> "m=", port |-> port, pts |-> [i \in 1..Len(cs) |-> cs[i].pt]],
       [tag |-> "a=sendrecv"] >>
    \o [i \in 1..Len(SelectSeq(cs, HasName)) |->
          [tag |-> "a=rtpmap:", pt |-> SelectSeq(cs, HasName)[i].pt,
           val |-> SelectSeq(cs, HasName)[i].name[1]]]
    \o [i \in 1..Len(SelectSeq(cs, HasFmt)) |->
          [tag |-> "a=fmtp:", pt |-> SelectSeq(cs, HasFmt)[i].pt,
           val |-> SelectSeq(cs, HasFmt)[i].fmt[1]]]
    \o << [tag |-> ""] >>

LocalOffer ==
    /\ ctl = "idle"
    /\ \E sid \in SessionIds :
          offer' = Some(localofferLines(sid, localip, localport, codecs(rtpkind)))
    /\ lastcall' = [op |-> "localoffer", exc |-> None, path |-> "returned"]
    /\ UNCHANGED <<ctl, localport, remoteip, remoteport, transmitting, raised,
                   toWorker, toCtl, wstate, wlocalport, remoteaddr,
                   wakeuptime, sockin, sent, rtpkind, localip, now, wlog, clog, wrecv,
                   nwaitret, narrived>>
    /\ UNCHANGED <<rtpvars, streamvars>>

-----------------------------------------------------------------------------
(* Media.setparticipantoffer *)

(* int(token): the tokens that are decimal literals, and their values;     *)
(* int() of any other token raises ValueError.                             *)
IntOf(tok) ==
    CASE tok = "6000" -> Some(6000)
      [] tok = "7000" -> Some(7000)
      [] OTHER -> None

(* A line of SDP text: pfx is what line.startswith() looks at, toks is     *)
(* line.split().                                                           *)
Line(pfx, toks) == [pfx |-> pfx, toks |-> toks]

LV == Line("v=", <<"v=0">>)
LS == Line("s=", <<"s=-">>)
LC2 == Line("c=", <<"c=IN", "IP4", "10.0.0.2">>)
LC3 == Line("c=", <<"c=IN", "IP4", "10.0.0.3">>)
LCshort == Line("c=", <<"c=IN", "IP4">>)
LM6 == Line("m=", <<"m=audio", "6000", "RTP/AVP", "0">>)
LM7 == Line("m=", <<"m=audio", "7000", "RTP/AVP", "8">>)
LMshort == Line("m=", <<"m=audio">>)
LMbad == Line("m=", <<"m=audio", "RTP/AVP", "0">>)

SdpTexts ==
    { <<LV, LS, LM6, LC2>>,      \* well formed
      <<LV, LC3, LM7>>,          \* well formed, another address
      <<LV, LC2>>,               \* no m= line
      <<LV, LS>>,                \* neither line
      <<LCshort, LM6>>,          \* c= line with two tokens
      <<LC2, LMshort>>,          \* m= line with one token
      <<LC3, LMbad>> }           \* m= line whose second token is no integer

(* The body of the for loop, lines 68-71, on one line.  st is the pair of  *)
(* fields and the exception raised so far.                                 *)
applyLine(st, line) ==
    IF st.exc # None THEN st
    ELSE IF line.pfx = "c="
         THEN IF Len(line.toks) < 3
              THEN [st EXCEPT !.exc = Some("IndexError")]
              ELSE [st EXCEPT !.ip = Some(line.toks[3])]
    ELSE IF line.pfx = "m="
         THEN IF Len(line.toks) < 2
              THEN [st EXCEPT !.exc = Some("IndexError")]
              ELSE IF IntOf(line.toks[2]) = None
                   THEN [st EXCEPT !.exc = Some("ValueError")]
                   ELSE [st EXCEPT !.port = IntOf(line.toks[2])]
    ELSE st

RECURSIVE applyLines(_, _, _)
applyLines(st, sdp, i) ==
    IF i > Len(sdp) THEN st ELSE applyLines(applyLine(st, sdp[i]), sdp, i + 1)

(* setparticipantoffer without the test of line 65 *)
setparticipantofferNoGuard(sdp) ==
    applyLines([ip |-> remoteip, port |-> remoteport, exc |-> None,
                path |-> "scanned"], sdp, 1)

setparticipantofferResult(sdp) ==
    IF transmitting
    THEN [ip |-> remoteip, port |-> remoteport, exc |-> None, path |-> "early"]
    ELSE applyLines([ip |-> remoteip, port |-> remoteport, exc |-> None,
                     path |-> "scanned"], sdp, 1)

SetParticipantOffer ==
    /\ ctl = "idle"
    /\ \E sdp \in SdpTexts :
          /\ remoteip' = setparticipantofferResult(sdp).ip
          /\ remoteport' = setparticipantofferResult(sdp).port
          /\ lastcall' = [op |-> "setparticipantoffer",
                          exc |-> setparticipantofferResult(sdp).exc,
                          path |-> setparticipantofferResult(sdp).path]
    /\ UNCHANGED <<ctl, localport, transmitting, offer, raised,
                   toWorker, toCtl, wstate, wlocalport, remoteaddr,
                   wakeuptime, sockin, sent, rtpkind, localip, now, wlog, clog, wrecv,
                   nwaitret, narrived>>
    /\ UNCHANGED <<rtpvars, streamvars>>

-----------------------------------------------------------------------------
(* Media.transmit, Media.stop, Media.wait *)

(* transmit without the test of line 74 *)
TransmitNoGuard ==
    /\ ctl = "idle"
    /\ Len(clog) < MaxStops + 2
    /\ transmitting' = TRUE
    /\ IF remoteip # None /\ remoteport # None
       THEN /\ toWorker' = Append(toWorker, AddrMsg(remoteip[1], remoteport[1]))
            /\ clog' = Append(clog, AddrMsg(remoteip[1], remoteport[1]))
            /\ lastcall' = [op |-> "transmit", exc |-> None,
                            path |-> IF transmitting THEN "early" ELSE "sent"]
       ELSE /\ UNCHANGED <<toWorker, clog>>
            /\ lastcall' = [op |-> "transmit", exc |-> None,
                            path |-> "warned"]
    /\ UNCHANGED <<ctl, localport, remoteip, remoteport, offer, raised,
                   toCtl, wstate, wlocalport, remoteaddr,
                   wakeuptime, sockin, sent, rtpkind, localip, now, wlog,
                   wrecv, nwaitret, narrived>>
    /\ UNCHANGED <<rtpvars, streamvars>>

Transmit ==
    /\ ctl = "idle"
    /\ IF transmitting
       THEN /\ UNCHANGED <<transmitting, toWorker, clog>>
            /\ lastcall' = [op |-> "transmit", exc |-> None, path |-> "early"]
       ELSE /\ transmitting' = TRUE
            /\ IF remoteip # None /\ remoteport # None
               THEN /\ toWorker' = Append(toWorker, AddrMsg(remoteip[1], remoteport[1]))
                    /\ clog' = Append(clog, AddrMsg(remoteip[1], remoteport[1]))
                    /\ lastcall' = [op |-> "transmit", exc |-> None,
                                    path |-> "sent"]
               ELSE /\ UNCHANGED <<toWorker, clog>>   \* log.warning
                    /\ lastcall' = [op |-> "transmit", exc |-> None,
                                    path |-> "warned"]
    /\ UNCHANGED <<ctl, localport, remoteip, remoteport, offer, raised,
                   toCtl, wstate, wlocalport, remoteaddr,
                   wakeuptime, sockin, sent, rtpkind, localip, now, wlog, wrecv,
                   nwaitret, narrived>>
    /\ UNCHANGED <<rtpvars, streamvars>>

NStops == Len(SelectSeq(clog, LAMBDA m : m.kind = "None"))

(* stop that also waits for the acknowledgment *)
StopAndWait ==
    /\ ctl = "idle"
    /\ NStops < MaxStops
    /\ toCtl # << >>
    /\ toCtl' = Tail(toCtl)
    /\ toWorker' = Append(toWorker, NoneMsg)
    /\ clog' = Append(clog, NoneMsg)
    /\ lastcall' = [op |-> "stop", exc |-> None, path |-> "returned"]
    /\ UNCHANGED <<ctl, localport, remoteip, remoteport, transmitting, offer,
                   raised, wstate, wlocalport, remoteaddr,
                   wakeuptime, sockin, sent, rtpkind, localip, now, wlog,
                   wrecv, nwaitret, narrived>>
    /\ UNCHANGED <<rtpvars, streamvars>>

Stop ==
    /\ ctl = "idle"
    /\ NStops < MaxStops
    /\ toWorker' = Append(toWorker, NoneMsg)
    /\ clog' = Append(clog, NoneMsg)
    /\ lastcall' = [op |-> "stop", exc |-> None, path |-> "returned"]
    /\ UNCHANGED <<ctl, localport, remoteip, remoteport, transmitting, offer,
                   raised, toCtl, wstate, wlocalport, remoteaddr,
                   wakeuptime, sockin, sent, rtpkind, localip, now, wlog, wrecv,
                   nwaitret, narrived>>
    /\ UNCHANGED <<rtpvars, streamvars>>

(* wait(): the call, which blocks in self.pipe.recv() ... *)
WaitCall ==
    /\ ctl = "idle"
    /\ nwaitret < MaxWaits
    /\ ctl' = "wait"
    /\ UNCHANGED <<localport, remoteip, remoteport, transmitting, offer,
                   lastcall, raised, toWorker, toCtl, wstate, wlocalport,
                   remoteaddr, wakeuptime, sockin, sent, rtpkind, localip, now, wlog,
                   clog, wrecv, nwaitret, narrived>>
    /\ UNCHANGED <<rtpvars, streamvars>>

(* ... and its return, when a message is there *)
WaitReturn ==
    /\ ctl = "wait"
    /\ toCtl # << >>
    /\ toCtl' = Tail(toCtl)
    /\ ctl' = "idle"
    /\ nwaitret' = nwaitret + 1
    /\ lastcall' = [op |-> "wait", exc |-> None, path |-> "returned"]
    /\ UNCHANGED <<localport, remoteip, remoteport, transmitting, offer,
                   raised, toWorker, wstate, wlocalport,
                   remoteaddr, wakeuptime, sockin, sent, rtpkind, localip, now, wlog,
                   clog, wrecv, narrived>>
    /\ UNCHANGED <<rtpvars, streamvars>>

(* The constructor without the test of line 40 *)
CtorRecvNoRaise ==
    /\ ctl = "ctor"
    /\ toCtl # << >>
    /\ toCtl' = Tail(toCtl)
    /\ localport' = IF Head(toCtl).kind = "int" THEN Head(toCtl).val
                    ELSE localport
    /\ ctl' = "idle"
    /\ UNCHANGED <<remoteip, remoteport, transmitting, offer, lastcall,
                   raised, toWorker, wstate, wlocalport,
                   remoteaddr, wakeuptime, sockin, sent, rtpkind, localip,
                   now, wlog, clog, wrecv, nwaitret, narrived>>
    /\ UNCHANGED <<rtpvars, streamvars>>

(* The constructor that keeps the port it was asked for *)
CtorRecvKeepPort ==
    /\ ctl = "ctor"
    /\ toCtl # << >>
    /\ toCtl' = Tail(toCtl)
    /\ IF Head(toCtl).kind = "int"
       THEN /\ ctl' = "idle"
            /\ UNCHANGED raised
       ELSE /\ raised' = Some(Head(toCtl))
            /\ ctl' = "raised"
    /\ UNCHANGED <<remoteip, remoteport, transmitting, offer, lastcall,
                   toWorker, wstate, wlocalport, localport,
                   remoteaddr, wakeuptime, sockin, sent, rtpkind, localip, now, wlog,
                   clog, wrecv, nwaitret, narrived>>
    /\ UNCHANGED <<rtpvars, streamvars>>

(* Media.__init__ from self.pipe.recv() on: the process has been started   *)
(* and the caller is blocked until the worker's first message.             *)
CtorRecv ==
    /\ ctl = "ctor"
    /\ toCtl # << >>
    /\ toCtl' = Tail(toCtl)
    /\ IF Head(toCtl).kind = "int"
       THEN /\ localport' = Head(toCtl).val
            /\ ctl' = "idle"
            /\ UNCHANGED raised
       ELSE /\ raised' = Some(Head(toCtl))
            /\ ctl' = "raised"
            /\ UNCHANGED localport
    /\ UNCHANGED <<remoteip, remoteport, transmitting, offer, lastcall,
                   toWorker, wstate, wlocalport,
                   remoteaddr, wakeuptime, sockin, sent, rtpkind, localip, now, wlog,
                   clog, wrecv, nwaitret, narrived>>
    /\ UNCHANGED <<rtpvars, streamvars>>

-----------------------------------------------------------------------------
(* class RTP: the packet codec *)

(* Python's | on non-negative integers *)
RECURSIVE BitOr(_, _)
BitOr(a, b) ==
    IF a = 0 THEN b
    ELSE IF b = 0 THEN a
    ELSE (IF a % 2 = 1 \/ b % 2 = 1 THEN 1 ELSE 0)
         + 2 * BitOr(a \div 2, b \div 2)

(* Python's >> (an arithmetic shift: the floor of x / 2^n) and & with a    *)
(* mask 2^n - 1 (on two's complement: x mod 2^n), for x of either sign     *)
Pow2(n) == 2 ^ n
Shr(x, n) == IF x >= 0 THEN x \div Pow2(n)
             ELSE 0 - (((0 - x) + Pow2(n) - 1) \div Pow2(n))
AndMask(x, n) == ((x % Pow2(n)) + Pow2(n)) % Pow2(n)

(* struct format 'b': a byte read as a signed char *)
SignedByte(b) == IF b >= 128 THEN b - 256 ELSE b

(* struct formats '!H' and '!L': big-endian unsigned 16 and 32 bits.  A    *)
(* 32-bit value is the pair <<high half, low half>>.                       *)
PackH(v) == << v \div 256, v % 256 >>
PackL(w) == PackH(w[1]) \o PackH(w[2])
UnpackH(bs, i) == bs[i] * 256 + bs[i + 1]
UnpackL(bs, i) == << UnpackH(bs, i), UnpackH(bs, i + 2) >>

Zeros(n) == [i \in 1..n |-> 0]

(* RTP.tobytes, for fields that fit a byte / their struct format *)
tobytes(r) ==
    << BitOr(BitOr(BitOr(r.version * 64, r.P * 32), r.X * 16), r.CC),
       BitOr(r.M * 128, r.PT) >>
    \o PackH(r.seq) \o PackL(r.TS) \o PackL(r.SSRC)
    \o r.payload

(* struct.unpack_from('!bbHLL', data): the 12 bytes it reads, or None     *)
(* when data is shorter and it raises struct.error                         *)
unpack_from(data) ==
    IF Len(data) < 12 THEN None ELSE Some(SubSeq(data, 1, 12))

Min(a, b) == IF a < b THEN a ELSE b

(* The unpack applied to buf[:12] alone *)
headerNoPad(b) == unpack_from(SubSeq(b, 1, Min(12, Len(b))))

(* What line 162 unpacks: buf[:12] + 12*b'\x00' *)
header(b) == unpack_from(SubSeq(b, 1, Min(12, Len(b))) \o Zeros(12))

(* RTP.frombytes: whether it raises, and the RTP object it returns if not *)
frombytesRaises(b) == header(b) = None

frombytes(b) ==
    LET hdr == header(b)[1]
        h0 == SignedByte(hdr[1])
        h1 == SignedByte(hdr[2])
    IN  [ version |-> Shr(h0, 6),
          P       |-> AndMask(Shr(h0, 5), 1),
          X       |-> AndMask(Shr(h0, 4), 1),
          CC      |-> AndMask(h0, 4),
          M       |-> Shr(h1, 7),
          PT      |-> AndMask(h1, 7),
          seq     |-> UnpackH(hdr, 3),
          TS      |-> UnpackL(hdr, 5),
          SSRC    |-> UnpackL(hdr, 9),
          payload |-> SubSeq(b, 13, Len(b)) ]

-----------------------------------------------------------------------------
(* class RTPStream: the constructor and nextparams *)

(* int(self.codec[1].split('/')[1]) of line 221, over the codec names of   *)
(* the model; None when the name has no second field (IndexError).         *)
samplingrate(name) ==
    CASE name \in {"PCMU/8000", "GSM/8000", "G723/8000", "DVI4/8000",
                   "LPC/8000", "PCMA/8000", "G722/8000", "QCELP/8000",
                   "CN/8000", "G728/8000", "G729/8000"} -> Some(8000)
      [] name = "DVI4/16000" -> Some(16000)
      [] name \in {"L16/44100/2", "L16/44100/1"} -> Some(44100)
      [] name = "MPA/90000" -> Some(90000)
      [] name = "DVI4/11025" -> Some(11025)
      [] name = "DVI4/22050" -> Some(22050)
      [] name = "opus/48000" -> Some(48000)
      [] OTHER -> None

(* int(samplingrate * self.period) with the default period of 0.020 s *)
numsamplesOf(rate) == (rate * 20) \div 1000

(* hi * 2^16 + lo reduced % 0xffffffff, for lo < 2^16 and hi < 2^17 *)
Mod32m1(hi, lo) ==
    IF hi >= 65536
    THEN <<(hi - 65536) + (lo + 1) \div 65536, (lo + 1) % 65536>>
    ELSE IF hi = 65535 /\ lo = 65535 THEN <<0, 0>> ELSE <<hi, lo>>

(* (TS + n) % 0xffffffff on a 32-bit value held as <<hi16, lo16>> *)
AddTS(ts, n) ==
    LET l == ts[2] + (n % 65536)
    IN  Mod32m1(ts[1] + (n \div 65536) + (l \div 65536), l % 65536)

(* The entry of RTPStream.defaultcodecs for a payload type, lines 203-206 *)
codecOf(PT) ==
    LET ks == { k \in 1..Len(defaultcodecs) : defaultcodecs[k].pt = PT }
    IN  IF ks # {} THEN defaultcodecs[CHOOSE k \in ks : TRUE]
        ELSE [pt |-> PT, name |-> None, fmt |-> None]

(* RTPStream.__init__(PT, rtplen, **params): the exception it raises, or   *)
(* the attributes it leaves.  A parameter that is None is absent; seq,     *)
(* SSRC and TS are the parameter or the random draw.                       *)
RTPStreamInitResult(cls, PT, rtplen, codecname, codecformat, seq, SSRC, TS) ==
    LET d == codecOf(PT)
        codec == [pt |-> PT,
                  name |-> IF codecname # None THEN codecname ELSE d.name,
                  fmt |-> IF codecformat # None THEN codecformat ELSE d.fmt]
        rate == IF codec.name = None THEN None
                ELSE samplingrate(codec.name[1])
    IN  IF codec.name = None
        THEN [exc |-> Some("missing codecname"), obj |-> None]
        ELSE IF rate = None
        THEN [exc |-> Some("missing numsamples"), obj |-> None]
        ELSE [exc |-> None,
              obj |-> Some([cls |-> cls, PT |-> PT, rtplen |-> rtplen,
                            codec |-> codec, seq |-> seq, SSRC |-> SSRC,
                            TS |-> TS, numsamples |-> numsamplesOf(rate[1]),
                            eof |-> TRUE])]

Ssrc == <<1, 2>>

(* RTPStream.nextparams *)
nextparams(s) ==
    [s EXCEPT !.TS = AddTS(s.TS, s.numsamples),
              !.seq = (s.seq + 1) % 65535]

(* The rtp argument of Media.__init__, which the worker process inherits   *)
(* as self.rtp: None, RTPStream(8, 0, ...) or                              *)
(* RTPRandomStream(96, 2, codecname='opus/48000', codecformat='stereo=1'), *)
(* with a sequence number and a timestamp about to wrap.                   *)
rtpObject(kind) ==
    IF kind = "none" THEN None
    ELSE IF kind = "stream"
    THEN RTPStreamInitResult("RTPStream", 8, 0, None, None, 65534, Ssrc,
                             <<65535, 65535>>).obj
    ELSE Some([RTPStreamInitResult("RTPRandomStream", 96, 2,
                                   Some("opus/48000"), Some("stereo=1"),
                                   65534, Ssrc, <<65535, 65535>>).obj[1]
               EXCEPT !.eof = FALSE])

-----------------------------------------------------------------------------
(* Media.run: the worker process *)

(* errno.errorcode[n]: the symbolic name of an errno value.  The table     *)
(* holds the errno values of the platform; the error numbers of name       *)
(* resolution (socket.gaierror, negative) are not in it and the lookup     *)
(* raises KeyError.                                                        *)
errorcode(n) ==
    CASE n = 98 -> Some("EADDRINUSE")
      [] n = 99 -> Some("EADDRNOTAVAIL")
      [] OTHER -> None

(* sock.bind((ip, port)) of a fresh UDP socket: what it raises, or the     *)
(* port it binds.  inuse says that another socket holds the port.          *)
(*   "256.1.1.1"  does not resolve: socket.gaierror (an OSError), errno -2 *)
(*   port > 65535: OverflowError                                           *)
(*   "192.0.2.1"  is no address of this host: OSError, EADDRNOTAVAIL       *)
bind(ip, port, inuse, ephemeral) ==
    IF ip = "256.1.1.1" THEN [exc |-> Some("OSError"), errno |-> 0 - 2]
    ELSE IF port > 65535 THEN [exc |-> Some("OverflowError")]
    ELSE IF ip = "192.0.2.1" THEN [exc |-> Some("OSError"), errno |-> 99]
    ELSE IF port # 0 /\ inuse THEN [exc |-> Some("OSError"), errno |-> 98]
    ELSE [exc |-> None, port |-> IF port = 0 THEN ephemeral ELSE port]

(* Lines 92-104: create the socket, bind it, report the port or the error. *)
(* An exception raised inside the OSError handler is not caught: the       *)
(* process ends with nothing sent.                                         *)
Bind ==
    /\ wstate = "BINDING"
    /\ \E inuse \in BOOLEAN, ephemeral \in EphemeralPorts :
         LET r == bind(localip, wlocalport, inuse, ephemeral) IN
         IF r.exc = None
         THEN /\ wlocalport' = r.port
              /\ toCtl' = Append(toCtl, IntMsg(r.port))
              /\ wlog' = Append(wlog, IntMsg(r.port))
              /\ wstate' = "WAITING_REMOTE"
         ELSE IF r.exc = Some("OSError")
         THEN IF errorcode(r.errno) = None
              THEN /\ wstate' = "CRASHED"
                   /\ UNCHANGED <<wlocalport, toCtl, wlog>>
              ELSE /\ toCtl' = Append(toCtl, ExcMsg(<<"cannot bind UDP socket", localip, errorcode(r.errno)[1]>>))
                   /\ wlog' = Append(wlog, ExcMsg(<<"cannot bind UDP socket", localip, errorcode(r.errno)[1]>>))
                   /\ wstate' = "BIND_FAILED"
                   /\ UNCHANGED wlocalport
         ELSE /\ toCtl' = Append(toCtl, ExcMsg(<<r.exc[1]>>))
              /\ wlog' = Append(wlog, ExcMsg(<<r.exc[1]>>))
              /\ wstate' = "BIND_FAILED"
              /\ UNCHANGED wlocalport
    /\ UNCHANGED <<ctl, localport, remoteip, remoteport, transmitting, offer,
                   lastcall, raised, toWorker, remoteaddr, wakeuptime, sockin,
                   sent, rtpkind, localip, now, clog, wrecv, nwaitret,
                   narrived>>
    /\ UNCHANGED <<rtpvars, streamvars>>

(* The wait for the remote address, returning on None without line 109 *)
WaitRemoteNoAck ==
    /\ wstate = "WAITING_REMOTE"
    /\ toWorker # << >>
    /\ toWorker' = Tail(toWorker)
    /\ wrecv' = Append(wrecv, Head(toWorker))
    /\ IF Head(toWorker).kind = "None"
       THEN /\ wstate' = "STOPPED"
            /\ UNCHANGED <<remoteaddr, wakeuptime>>
       ELSE /\ remoteaddr' = Some(<<Head(toWorker).ip, Head(toWorker).port>>)
            /\ wakeuptime' = now
            /\ wstate' = "RUNNING"
    /\ UNCHANGED <<ctl, localport, remoteip, remoteport, transmitting, offer,
                   lastcall, raised, wlocalport, sockin, sent, rtpkind,
                   localip, now, clog, nwaitret, narrived, toCtl,
                   wlog>>
    /\ UNCHANGED <<rtpvars, streamvars>>

(* The wait for the remote address that acknowledges a stop message and   *)
(* goes on waiting                                                         *)
WaitRemoteAckAndWait ==
    /\ wstate = "WAITING_REMOTE"
    /\ toWorker # << >>
    /\ toWorker' = Tail(toWorker)
    /\ wrecv' = Append(wrecv, Head(toWorker))
    /\ IF Head(toWorker).kind = "None"
       THEN /\ toCtl' = Append(toCtl, NoneMsg)
            /\ wlog' = Append(wlog, NoneMsg)
            /\ UNCHANGED <<wstate, remoteaddr, wakeuptime>>
       ELSE /\ remoteaddr' = Some(<<Head(toWorker).ip, Head(toWorker).port>>)
            /\ wakeuptime' = now
            /\ wstate' = "RUNNING"
            /\ UNCHANGED <<toCtl, wlog>>
    /\ UNCHANGED <<ctl, localport, remoteip, remoteport, transmitting, offer,
                   lastcall, raised, wlocalport, sockin, sent, rtpkind,
                   localip, now, clog, nwaitret, narrived>>
    /\ UNCHANGED <<rtpvars, streamvars>>

(* Lines 107-113: wait for the remote address.  "not remoteaddr" is true   *)
(* of None and false of an (ip, port) tuple.                               *)
WaitRemote ==
    /\ wstate = "WAITING_REMOTE"
    /\ toWorker # << >>
    /\ toWorker' = Tail(toWorker)
    /\ wrecv' = Append(wrecv, Head(toWorker))
    /\ IF Head(toWorker).kind = "None"
       THEN /\ toCtl' = Append(toCtl, NoneMsg)
            /\ wlog' = Append(wlog, NoneMsg)
            /\ wstate' = "STOPPED"
            /\ UNCHANGED <<remoteaddr, wakeuptime>>
       ELSE /\ remoteaddr' = Some(<<Head(toWorker).ip, Head(toWorker).port>>)
            /\ wakeuptime' = now
            /\ wstate' = "RUNNING"
            /\ UNCHANGED <<toCtl, wlog>>
    /\ UNCHANGED <<ctl, localport, remoteip, remoteport, transmitting, offer,
                   lastcall, raised, wlocalport, sockin, sent, rtpkind,
                   localip, now, clog, nwaitret, narrived>>
    /\ UNCHANGED <<rtpvars, streamvars>>

(* One iteration of the loop, lines 116-142, by what                        *)
(* multiprocessing.connection.wait([sock, self.childpipe], sleep) returns.  *)

(* The datagrams a peer sends: an empty one, one shorter than the 12-byte  *)
(* header, and a whole packet with a 2-byte payload.                       *)
Datagrams ==
    { << >>,
      <<128, 136, 1>>,
      <<128, 8, 0, 7, 0, 0, 0, 160, 0, 0, 0, 1, 85, 213>> }

(* Lines 130-131 on a datagram d: buf, addr = sock.recvfrom(65536) and     *)
(* rtp = RTP.frombytes(buf).  The result is None when frombytes raises     *)
(* (the exception is not caught in run(), so the worker dies), and the     *)
(* pair of locals otherwise.                                               *)
recvfrom(d) ==
    IF frombytesRaises(d) THEN None
    ELSE Some([buf |-> d, rtp |-> frombytes(d)])

(* The read that also restarts the timer from the clock *)
RunDrainResetsTimer ==
    /\ wstate = "RUNNING"
    /\ sockin > 0
    /\ toWorker = << >>
    /\ sockin' = sockin - 1
    /\ wakeuptime' = now
    /\ UNCHANGED <<ctl, localport, remoteip, remoteport, transmitting, offer,
                   lastcall, raised, toWorker, toCtl, wlocalport, wstate,
                   remoteaddr, sent, rtpkind, localip, now, wlog,
                   clog, wrecv, nwaitret, narrived>>
    /\ UNCHANGED <<rtpvars, streamvars>>

(* The socket alone is readable: one datagram, whose content is the        *)
(* peer's choice, is read, decoded and dropped.                            *)
RunDrain ==
    /\ wstate = "RUNNING"
    /\ sockin > 0
    /\ toWorker = << >>
    /\ sockin' = sockin - 1
    /\ \E d \in Datagrams :
          wstate' = IF recvfrom(d) = None THEN "CRASHED" ELSE wstate
    /\ UNCHANGED <<ctl, localport, remoteip, remoteport, transmitting, offer,
                   lastcall, raised, toWorker, toCtl, wlocalport,
                   remoteaddr, wakeuptime, sent, rtpkind, localip, now, wlog,
                   clog, wrecv, nwaitret, narrived>>
    /\ UNCHANGED <<rtpvars, streamvars>>

(* The stop message acknowledged inside the loop, which goes on *)
RunStopNoExit ==
    /\ wstate = "RUNNING"
    /\ toWorker # << >>
    /\ sockin' = IF sockin > 0 THEN sockin - 1 ELSE sockin
    /\ toWorker' = Tail(toWorker)
    /\ wrecv' = Append(wrecv, Head(toWorker))
    /\ toCtl' = Append(toCtl, NoneMsg)
    /\ wlog' = Append(wlog, NoneMsg)
    /\ UNCHANGED <<ctl, localport, remoteip, remoteport, transmitting, offer,
                   lastcall, raised, wlocalport, remoteaddr, wakeuptime,
                   sent, rtpkind, localip, now, clog, nwaitret, narrived,
                   wstate>>
    /\ UNCHANGED <<rtpvars, streamvars>>

(* The last iteration that also sends the packet that is due *)
RunStopSendsDue ==
    /\ wstate = "RUNNING"
    /\ toWorker # << >>
    /\ sockin' = IF sockin > 0 THEN sockin - 1 ELSE sockin
    /\ toWorker' = Tail(toWorker)
    /\ wrecv' = Append(wrecv, Head(toWorker))
    /\ toCtl' = Append(toCtl, NoneMsg)
    /\ wlog' = Append(wlog, NoneMsg)
    /\ wstate' = "STOPPED"
    /\ sent' = IF rtpkind = "random" /\ wakeuptime <= now
               THEN Append(sent, remoteaddr[1]) ELSE sent
    /\ UNCHANGED <<ctl, localport, remoteip, remoteport, transmitting, offer,
                   lastcall, raised, wlocalport, remoteaddr, wakeuptime,
                   rtpkind, localip, now, clog, nwaitret, narrived>>
    /\ UNCHANGED <<rtpvars, streamvars>>

(* The pipe is readable (and the socket may be): a readable socket is read *)
(* and decoded as above, the message is received, running becomes False,   *)
(* the loop ends and line 145 sends None.                                  *)
RunStop ==
    /\ wstate = "RUNNING"
    /\ toWorker # << >>
    /\ sockin' = IF sockin > 0 THEN sockin - 1 ELSE sockin
    /\ \E d \in Datagrams :
          IF sockin > 0 /\ recvfrom(d) = None
          THEN /\ wstate' = "CRASHED"
               /\ UNCHANGED <<toWorker, wrecv, toCtl, wlog>>
          ELSE /\ toWorker' = Tail(toWorker)
               /\ wrecv' = Append(wrecv, Head(toWorker))
               /\ toCtl' = Append(toCtl, NoneMsg)
               /\ wlog' = Append(wlog, NoneMsg)
               /\ wstate' = "STOPPED"
    /\ UNCHANGED <<ctl, localport, remoteip, remoteport, transmitting, offer,
                   lastcall, raised, wlocalport, remoteaddr, wakeuptime,
                   sent, rtpkind, localip, now, clog, nwaitret, narrived>>
    /\ UNCHANGED <<rtpvars, streamvars>>

(* The timeout of one iteration of the loop (lines 117-122): None waits    *)
(* for an event without limit, 0 polls.                                    *)
sleep ==
    IF rtpkind = "none" THEN None
    ELSE IF wakeuptime <= now THEN Some(0)
    ELSE Some(wakeuptime - now)

(* The send addressed to the endpoint's own socket *)
RunSendToSelf ==
    /\ wstate = "RUNNING"
    /\ sockin = 0
    /\ toWorker = << >>
    /\ sleep = Some(0)
    /\ ~eof(rtpkind)
    /\ Len(sent) < MaxSent
    /\ sent' = Append(sent, <<localip, wlocalport>>)
    /\ wakeuptime' = wakeuptime + Period
    /\ stream' = Some(nextparams(stream[1]))
    /\ UNCHANGED <<ctl, localport, remoteip, remoteport, transmitting, offer,
                   lastcall, raised, toWorker, toCtl, wstate, wlocalport,
                   remoteaddr, sockin, rtpkind, localip, now, wlog,
                   clog, wrecv, nwaitret, narrived>>
    /\ UNCHANGED <<rtpvars, sphase, sexc, lastpkt, nadv, seq0>>

(* The send that leaves the wake-up time where it was *)
RunSendNoAdvance ==
    /\ wstate = "RUNNING"
    /\ sockin = 0
    /\ toWorker = << >>
    /\ sleep = Some(0)
    /\ ~eof(rtpkind)
    /\ Len(sent) < MaxSent
    /\ sent' = Append(sent, remoteaddr[1])
    /\ stream' = Some(nextparams(stream[1]))
    /\ UNCHANGED <<ctl, localport, remoteip, remoteport, transmitting, offer,
                   lastcall, raised, toWorker, toCtl, wstate, wlocalport,
                   remoteaddr, sockin, rtpkind, localip, now, wlog,
                   clog, wrecv, nwaitret, narrived, wakeuptime>>
    /\ UNCHANGED <<rtpvars, sphase, sexc, lastpkt, nadv, seq0>>

(* The send that takes its next wake-up time from the clock *)
RunSendFromNow ==
    /\ wstate = "RUNNING"
    /\ sockin = 0
    /\ toWorker = << >>
    /\ sleep = Some(0)
    /\ ~eof(rtpkind)
    /\ Len(sent) < MaxSent
    /\ sent' = Append(sent, remoteaddr[1])
    /\ wakeuptime' = now + Period
    /\ stream' = Some(nextparams(stream[1]))
    /\ UNCHANGED <<ctl, localport, remoteip, remoteport, transmitting, offer,
                   lastcall, raised, toWorker, toCtl, wstate, wlocalport,
                   remoteaddr, sockin, rtpkind, localip, now, wlog,
                   clog, wrecv, nwaitret, narrived>>
    /\ UNCHANGED <<rtpvars, sphase, sexc, lastpkt, nadv, seq0>>

(* Nothing is readable and the timeout has expired (there is none when     *)
(* self.rtp is None): the next packet is sent unless the stream is at eof. *)
RunSend ==
    /\ wstate = "RUNNING"
    /\ sockin = 0
    /\ toWorker = << >>
    /\ sleep = Some(0)
    /\ ~eof(rtpkind)
    /\ Len(sent) < MaxSent
    /\ sent' = Append(sent, remoteaddr[1])
    /\ wakeuptime' = wakeuptime + Period
    /\ stream' = Some(nextparams(stream[1]))
    /\ UNCHANGED <<ctl, localport, remoteip, remoteport, transmitting, offer,
                   lastcall, raised, toWorker, toCtl, wstate, wlocalport,
                   remoteaddr, sockin, rtpkind, localip, now, wlog,
                   clog, wrecv, nwaitret, narrived>>
    /\ UNCHANGED <<rtpvars, sphase, sexc, lastpkt, nadv, seq0>>

(* A loop that ends by itself when the stream is at eof *)
RunIdleExit ==
    /\ wstate = "RUNNING"
    /\ sockin = 0
    /\ toWorker = << >>
    /\ sleep = Some(0)
    /\ eof(rtpkind)
    /\ wstate' = "STOPPED"
    /\ toCtl' = Append(toCtl, NoneMsg)
    /\ wlog' = Append(wlog, NoneMsg)
    /\ UNCHANGED <<ctl, localport, remoteip, remoteport, transmitting, offer,
                   lastcall, raised, toWorker, wlocalport, remoteaddr,
                   wakeuptime, sent, sockin, rtpkind, localip, now, clog,
                   wrecv, nwaitret, narrived>>
    /\ UNCHANGED <<rtpvars, streamvars>>

(* The same with the stream at eof: the iteration does nothing. *)
RunIdle ==
    /\ wstate = "RUNNING"
    /\ sockin = 0
    /\ toWorker = << >>
    /\ sleep = Some(0)
    /\ eof(rtpkind)
    /\ UNCHANGED mediavars
    /\ UNCHANGED <<rtpvars, streamvars>>

Worker == Bind \/ WaitRemote \/ RunDrain \/ RunStop \/ RunSend \/ RunIdle

-----------------------------------------------------------------------------
(* Environment *)

(* A datagram arrives on the bound socket. *)
Arrive ==
    /\ wstate \in {"WAITING_REMOTE", "RUNNING"}
    /\ narrived < MaxInbound
    /\ sockin' = sockin + 1
    /\ narrived' = narrived + 1
    /\ UNCHANGED <<ctl, localport, remoteip, remoteport, transmitting, offer,
                   lastcall, raised, toWorker, toCtl, wstate, wlocalport,
                   remoteaddr, wakeuptime, sent, rtpkind, localip, now, wlog,
                   clog, wrecv, nwaitret>>
    /\ UNCHANGED <<rtpvars, streamvars>>

(* The monotonic clock advances.  Its origin is arbitrary and the program  *)
(* reads it only from the entry into the loop on.                          *)
Tick ==
    /\ wstate = "RUNNING"
    /\ now < MaxTime
    /\ now' = now + 1
    /\ UNCHANGED <<ctl, localport, remoteip, remoteport, transmitting, offer,
                   lastcall, raised, toWorker, toCtl, wstate, wlocalport,
                   remoteaddr, wakeuptime, sockin, sent, rtpkind, localip,
                   wlog, clog, wrecv, nwaitret, narrived>>
    /\ UNCHANGED <<rtpvars, streamvars>>

-----------------------------------------------------------------------------
(* The endpoint and its worker *)

RtpIdle ==
    /\ pkt = None
    /\ buf = None
    /\ dec = None
    /\ rphase = "off"

(* No stream object is under study. *)
StreamIdle ==
    /\ stream = None
    /\ sphase = "off"
    /\ sexc = None
    /\ lastpkt = None
    /\ nadv = 0
    /\ seq0 = 0

(* The state when Media.__init__ has started the process (line 38) *)
Init ==
    /\ ctl = "ctor"
    /\ localport \in RequestedPorts
    /\ wlocalport = localport
    /\ localip \in LocalIps
    /\ rtpkind \in RtpKinds
    /\ remoteip = None
    /\ remoteport = None
    /\ transmitting = FALSE
    /\ offer = None
    /\ lastcall = [op |-> "__init__", exc |-> None, path |-> "started"]
    /\ raised = None
    /\ toWorker = << >>
    /\ toCtl = << >>
    /\ wstate = "BINDING"
    /\ remoteaddr = None
    /\ wakeuptime = 0
    /\ sockin = 0
    /\ sent = << >>
    /\ now = 0
    /\ wlog = << >>
    /\ clog = << >>
    /\ wrecv = << >>
    /\ nwaitret = 0
    /\ narrived = 0
    /\ RtpIdle
    /\ stream = rtpObject(rtpkind)
    /\ sphase = "off"
    /\ sexc = None
    /\ lastpkt = None
    /\ nadv = 0
    /\ seq0 = 0

Controller ==
    CtorRecv \/ LocalOffer \/ SetParticipantOffer \/ Transmit \/ Stop
    \/ WaitCall \/ WaitReturn

Next == Controller \/ Worker \/ Arrive \/ Tick

Spec == Init /\ [][Next]_vars

(* The worker process is scheduled, so a step it can take is taken, and a  *)
(* blocked pipe.recv() returns once a message is there.                    *)
FairSpec ==
    Spec /\ WF_vars(Worker) /\ WF_vars(CtorRecv) /\ WF_vars(WaitReturn)

(* A peer that does not stop sending: another datagram is on the socket   *)
(* whenever the worker comes back to wait().                               *)
ArriveAgain ==
    /\ wstate = "RUNNING"
    /\ narrived = MaxInbound
    /\ sockin = 0
    /\ sockin' = 1
    /\ UNCHANGED <<ctl, localport, remoteip, remoteport, transmitting, offer,
                   lastcall, raised, toWorker, toCtl, wstate, wlocalport,
                   remoteaddr, wakeuptime, sent, rtpkind, localip, now, wlog,
                   clog, wrecv, nwaitret, narrived>>
    /\ UNCHANGED <<rtpvars, streamvars>>

NextFlood == Next \/ ArriveAgain

(* The endpoint with such a peer; the worker process is scheduled, and     *)
(* which branch of the loop it takes is decided by what wait() returns.    *)
FloodSpec == Init /\ [][NextFlood]_vars /\ WF_vars(Worker)

-----------------------------------------------------------------------------
(* Properties of the endpoint and its worker *)

Handshakes == { i \in DOMAIN wlog : wlog[i].kind \in {"int", "Exception"} }
Dones == { i \in DOMAIN wlog : wlog[i].kind = "None" }
NAddr == Cardinality({ i \in DOMAIN clog : clog[i].kind = "tuple" })
Constructed == ctl \in {"idle", "wait"}

FailedWorkerStays ==
    wstate \in {"BIND_FAILED", "CRASHED"} =>
        /\ wstate' = wstate
        /\ UNCHANGED <<wrecv, remoteaddr, sent>>

SecondTransmitChangesNothing ==
    (Transmit /\ transmitting) =>
        UNCHANGED <<ctl, localport, remoteip, remoteport, transmitting,
                    offer, raised, toWorker, toCtl, clog>>

RemoteFrozen ==
    transmitting =>
        /\ transmitting'
        /\ remoteip' = remoteip
        /\ remoteport' = remoteport

TransmitUnsetChangesNothing ==
    (Transmit /\ (remoteip = None \/ remoteport = None)) =>
        UNCHANGED <<toWorker, clog, remoteip, remoteport, transmitting>>

C2_ExactlyOneHandshake ==
    /\ wlog # << >> => wlog[1].kind \in {"int", "Exception"}
    /\ Cardinality(Handshakes) <= 1
    /\ wstate # "BINDING" => Cardinality(Handshakes) = 1

(* C3: the worker sends None (Done) at most once and only when the last    *)
(* message it received is None (Stop); the controller sends only address   *)
(* tuples and None, the worker only the handshake message followed by at   *)
(* most one None.                                                          *)
C3_ChannelProtocol ==
    /\ Cardinality(Dones) <= 1
    /\ Dones # {} => wrecv # << >> /\ wrecv[Len(wrecv)].kind = "None"
    /\ \A i \in DOMAIN clog : clog[i].kind \in {"tuple", "None"}
    /\ \A i \in DOMAIN wlog : wlog[i].kind \in {"int", "Exception", "None"}
    /\ \A i \in DOMAIN wlog : (i = 1) = (wlog[i].kind \in {"int", "Exception"})
    /\ \A i \in DOMAIN toWorker : toWorker[i].kind \in {"tuple", "None"}
    /\ \A i \in DOMAIN toCtl : toCtl[i].kind \in {"int", "Exception", "None"}

C3_Witness ==
    /\ wstate = "STOPPED"
    /\ Len(wrecv) = 2 /\ wrecv[1].kind = "tuple" /\ wrecv[2].kind = "None"
    /\ Len(wlog) = 2 /\ wlog[2].kind = "None"
    /\ Len(clog) = 3

(* C4: after construction, once stop() has been called the worker          *)
(* eventually has acknowledged and stopped, whatever it was doing; and a   *)
(* wait() that follows a stop(), the first to be called, returns.          *)
C4_StopIsAcknowledged ==
    /\ (Constructed /\ NStops > 0) ~> (wstate = "STOPPED" /\ Dones # {})
    /\ (ctl = "wait" /\ NStops > 0 /\ nwaitret = 0) ~> (nwaitret = 1)

C4_Witness ==
    /\ NStops = 1
    /\ nwaitret = 1
    /\ wstate = "STOPPED"
    /\ clog[1].kind = "None"
    /\ Len(wrecv) = 1
    /\ Len(toWorker) = 1 /\ toWorker[1].kind = "tuple"

(* C5: at most one address message is ever sent to the worker, and a       *)
(* transmit() called when transmitting is already set changes nothing.     *)
C5_TransmitOnce ==
    /\ [](NAddr <= 1)
    /\ [][SecondTransmitChangesNothing]_vars

C5_Witness ==
    /\ lastcall = [op |-> "transmit", exc |-> None, path |-> "early"]
    /\ NAddr = 1
    /\ wstate = "RUNNING"

(* C6: once transmitting is set it stays set and the remote ip and port    *)
(* never change again, whatever text setparticipantoffer is given.         *)
C6_RemoteFrozenWhenTransmitting ==
    [][RemoteFrozen]_vars

C6_Witness ==
    /\ transmitting
    /\ lastcall = [op |-> "setparticipantoffer", exc |-> None, path |-> "early"]
    /\ remoteip = Some("10.0.0.2")
    /\ remoteport = Some(6000)

(* C7: a transmit() called while the remote ip or port is unset sends      *)
(* nothing and changes no field of the endpoint.                           *)
C7_TransmitUnsetIsNoOp ==
    [][TransmitUnsetChangesNothing]_vars

(* C8: setparticipantoffer raises nothing, whatever the text. *)
C8_OfferNeverRaises ==
    lastcall.op = "setparticipantoffer" => lastcall.exc = None

(* C9: between calls, localoffer, setparticipantoffer, transmit and stop   *)
(* can each be carried out at once, whatever the state of the worker and   *)
(* of the pipe (stop within the number of calls the model allows).         *)
C9_CallsDoNotBlock ==
    ctl = "idle" =>
        /\ ENABLED LocalOffer
        /\ ENABLED SetParticipantOffer
        /\ ENABLED Transmit
        /\ NStops < MaxStops => ENABLED Stop

C9_Witness ==
    /\ ctl = "idle"
    /\ wstate = "STOPPED"
    /\ lastcall.op = "stop"
    /\ NStops = 2
    /\ toCtl = << >>
    /\ Len(toWorker) = 1

-----------------------------------------------------------------------------
(* class RTP: packets and the codec alone *)

(* The packets of the model: every version and flag, the ends and the      *)
(* middle of each wider field                                              *)
Words32 == { <<0, 0>>, <<1, 65535>>, <<65535, 65535>> }
Payloads == { << >>, <<0>>, <<255, 1>> }
Packets ==
    [ version : 0..3, P : 0..1, X : 0..1, CC : {0, 5, 15}, M : 0..1,
      PT : {0, 8, 127}, seq : {0, 255, 256, 65535}, TS : Words32,
      SSRC : { <<0, 0>>, <<65535, 65535>> }, payload : Payloads ]

ToBytes ==
    /\ rphase = "new"
    /\ buf' = Some(tobytes(pkt[1]))
    /\ rphase' = "encoded"
    /\ UNCHANGED <<pkt, dec>>
    /\ UNCHANGED <<mediavars, streamvars>>

FromBytes ==
    /\ rphase = "encoded"
    /\ IF frombytesRaises(buf[1])
         THEN dec' = None /\ rphase' = "raised"
         ELSE dec' = Some(frombytes(buf[1])) /\ rphase' = "decoded"
    /\ UNCHANGED <<pkt, buf>>
    /\ UNCHANGED <<mediavars, streamvars>>

(* No endpoint: the codec alone *)
MediaOff ==
    /\ ctl = "off"
    /\ localport = 0
    /\ wlocalport = 0
    /\ localip = "127.0.0.1"
    /\ rtpkind = "none"
    /\ remoteip = None
    /\ remoteport = None
    /\ transmitting = FALSE
    /\ offer = None
    /\ lastcall = [op |-> "none", exc |-> None, path |-> "none"]
    /\ raised = None
    /\ toWorker = << >>
    /\ toCtl = << >>
    /\ wstate = "off"
    /\ remoteaddr = None
    /\ wakeuptime = 0
    /\ sockin = 0
    /\ sent = << >>
    /\ now = 0
    /\ wlog = << >>
    /\ clog = << >>
    /\ wrecv = << >>
    /\ nwaitret = 0
    /\ narrived = 0

InitRTP ==
    /\ MediaOff
    /\ pkt \in { Some(r) : r \in Packets }
    /\ buf = None
    /\ dec = None
    /\ rphase = "new"
    /\ StreamIdle

NextRTP == ToBytes \/ FromBytes

SpecRTP == InitRTP /\ [][NextRTP]_vars

(* C10: decoding the encoding of a packet whose fields are within their    *)
(* widths gives the packet back, field by field.                           *)
C10_RoundTrip ==
    rphase = "decoded" => dec = pkt

-----------------------------------------------------------------------------
(* Byte i of a datagram, read as zero when the datagram is shorter *)
PadByte(b, i) == IF i <= Len(b) THEN b[i] ELSE 0

(* The decoding of a datagram does not fail, its payload is what follows   *)
(* the 12th byte and, for a datagram shorter than 12 bytes, the payload is *)
(* empty and the header fields are those of the datagram followed by zero  *)
(* bytes.                                                                  *)
DecodedTolerantly(b) ==
    /\ recvfrom(b) # None
    /\ recvfrom(b)[1].buf = b
    /\ LET r == recvfrom(b)[1].rtp
       IN  /\ r.payload = SubSeq(b, 13, Len(b))
           /\ Len(b) < 12 =>
                 /\ r.payload = << >>
                 /\ r.CC = PadByte(b, 1) % 16
                 /\ r.PT = PadByte(b, 2) % 128
                 /\ r.seq = 256 * PadByte(b, 3) + PadByte(b, 4)
                 /\ r.TS = <<256 * PadByte(b, 5) + PadByte(b, 6),
                             256 * PadByte(b, 7) + PadByte(b, 8)>>
                 /\ r.SSRC = <<256 * PadByte(b, 9) + PadByte(b, 10),
                               256 * PadByte(b, 11) + PadByte(b, 12)>>

(* C11: RTP.frombytes never fails.  The worker's loop is never left        *)
(* through an exception of the decoding (a worker that died did so before  *)
(* it reported a port), and whenever a datagram waits on the socket of the *)
(* running worker, whatever its length, its decoding succeeds, with the    *)
(* missing header bytes read as zero and an empty payload when it is       *)
(* shorter than 12 bytes.                                                  *)
C11_DecodeNeverFails ==
    /\ wstate = "CRASHED" => wlog = << >>
    /\ (wstate = "RUNNING" /\ sockin > 0) =>
          \A d \in Datagrams : DecodedTolerantly(d)

(* A datagram (of 0, 3 or 14 bytes) has been read and dropped, and the     *)
(* loop goes on.                                                           *)
C11_Witness ==
    /\ wstate = "RUNNING"
    /\ narrived = 1
    /\ sockin = 0
    /\ \E d \in Datagrams : Len(d) < 12 /\ DecodedTolerantly(d)

-----------------------------------------------------------------------------
(* The time at which packet n is due: the worker enters RUNNING at time 0  *)
(* (the origin of the clock) and every packet lasts Period.                *)
DueTime(n) == n * Period

(* In the loop the next wake-up time is the due time of the next packet. *)
WakeupOnGrid ==
    (wstate = "RUNNING" /\ rtpkind # "none") =>
        wakeuptime = DueTime(Len(sent))

(* At its due time or later, with nothing to read, the next packet is the  *)
(* next thing the loop does.                                               *)
SendReadyWhenDue ==
    (/\ wstate = "RUNNING"
     /\ rtpkind = "random"
     /\ Len(sent) < MaxSent
     /\ sockin = 0
     /\ toWorker = << >>
     /\ now >= DueTime(Len(sent))) => ENABLED RunSend

(* No packet leaves before its due time. *)
NoEarlySend == Len(sent') > Len(sent) => now >= DueTime(Len(sent))

(* C13: with a source of fixed packet duration Period and the loop entered *)
(* at time 0, packet n is due at n * Period however late the earlier ones  *)
(* were sent: it is never sent before that time, and from that time on the *)
(* worker's next step with nothing to read sends it.                       *)
C13_Pacing ==
    /\ []WakeupOnGrid
    /\ []SendReadyWhenDue
    /\ [][NoEarlySend]_vars

(* Packet 1 has been sent at time Period, its due time, and packet 2 is   *)
(* due at 2 * Period.                                                      *)
C13_Witness ==
    /\ wstate = "RUNNING"
    /\ Len(sent) = 2
    /\ now = DueTime(1)
    /\ wakeuptime = DueTime(2)

-----------------------------------------------------------------------------
(* The lines of an offer with a given tag that bear a given payload type *)
OfferLines(ls, tag, pt) ==
    { i \in 1..Len(ls) : ls[i].tag = tag /\ ls[i].pt = pt }

(* C17: the media line of every offer carries the port of the worker's     *)
(* Ready message, which is not 0, followed by the payload types in the     *)
(* order of the codec list, and the offer has one rtpmap line for each     *)
(* codec with a name, one fmtp line for each codec with format params, and *)
(* no other.                                                               *)
C17_OfferPortAndCodecs ==
    offer # None =>
        LET ls == offer[1]
            cs == codecs(rtpkind)
            tagged(t) == { i \in 1..Len(ls) : ls[i].tag = t }
        IN  /\ wlog # << >> /\ wlog[1].kind = "int"
            /\ ls[6].tag = "m="
            /\ ls[6].port = wlog[1].val
            /\ ls[6].port # 0
            /\ Len(ls[6].pts) = Len(cs)
            /\ \A i \in 1..Len(cs) : ls[6].pts[i] = cs[i].pt
            /\ \A i \in 1..Len(cs) :
                  /\ Cardinality(OfferLines(ls, "a=rtpmap:", cs[i].pt))
                        = IF cs[i].name # None THEN 1 ELSE 0
                  /\ Cardinality(OfferLines(ls, "a=fmtp:", cs[i].pt))
                        = IF cs[i].fmt # None THEN 1 ELSE 0
            /\ Cardinality(tagged("a=rtpmap:"))
                  = Cardinality({ i \in 1..Len(cs) : cs[i].name # None })
            /\ Cardinality(tagged("a=fmtp:"))
                  = Cardinality({ i \in 1..Len(cs) : cs[i].fmt # None })

(* An offer made by an endpoint that asked for port 0 over a stream whose  *)
(* codec has format params: the port is the one the system assigned.       *)
C17_Witness ==
    /\ offer # None
    /\ rtpkind = "random"
    /\ wlog[1].kind = "int"
    /\ wlog[1].val \in EphemeralPorts
    /\ offer[1][6].port = wlog[1].val
    /\ Cardinality(OfferLines(offer[1], "a=fmtp:", 96)) = 1

-----------------------------------------------------------------------------
(* C18: whenever the bind has failed, whatever the error, the worker has   *)
(* sent exactly one message, the bind error, before it exited.             *)
C18_BindFailureReported ==
    wstate \in {"BIND_FAILED", "CRASHED"} =>
        /\ Len(wlog) = 1
        /\ wlog[1].kind = "Exception"

(* The transitions of the worker's state machine *)
WorkerTransitions ==
    { <<"BINDING", "WAITING_REMOTE">>,
      <<"BINDING", "BIND_FAILED">>,
      <<"WAITING_REMOTE", "RUNNING">>,
      <<"WAITING_REMOTE", "STOPPED">>,
      <<"RUNNING", "STOPPED">> }

WorkerStep ==
    /\ wstate' # wstate => <<wstate, wstate'>> \in WorkerTransitions
    /\ (wstate' = "RUNNING" /\ wstate # "RUNNING") =>
          /\ wstate = "WAITING_REMOTE"
          /\ toWorker # << >>
          /\ Head(toWorker).kind = "tuple"
          /\ wrecv' = Append(wrecv, Head(toWorker))

(* C19: the worker's state changes only along BINDING -> WAITING_REMOTE -> *)
(* RUNNING -> STOPPED, BINDING -> BIND_FAILED and WAITING_REMOTE ->        *)
(* STOPPED, and RUNNING is entered only from WAITING_REMOTE by receiving   *)
(* an address message.                                                     *)
C19_WorkerTransitions == [][WorkerStep]_vars

(* C20: a worker whose first received message is a stop message (it was    *)
(* then waiting for the remote address) has acknowledged it once and       *)
(* stopped: it has no remote address, has sent no datagram, and receives   *)
(* nothing more, whatever is sent to it afterwards.                        *)
C20_StopWhileWaiting ==
    (wrecv # << >> /\ wrecv[1].kind = "None") =>
        /\ wstate = "STOPPED"
        /\ Len(wrecv) = 1
        /\ remoteaddr = None
        /\ sent = << >>
        /\ Cardinality(Dones) = 1

(* The stop message was received first and an address message, sent       *)
(* after it, stays in the pipe.                                            *)
C20_Witness ==
    /\ wrecv # << >>
    /\ wrecv[1].kind = "None"
    /\ wstate = "STOPPED"
    /\ toWorker # << >>
    /\ toWorker[Len(toWorker)].kind = "tuple"
    /\ clog[1].kind = "None"

-----------------------------------------------------------------------------
(* class RTPStream, class RTPRandomStream, class RTPFile *)

MaxCalls == 2

(* Constructor arguments of the model *)
PTs == {0, 96}
Rtplens == {0, 2}
CodecNames == {None, Some("opus/48000"), Some("telephone-event")}
Seqs == {0, 1, 65534, 65535}
Timestamps == { <<0, 0>>, <<65535, 65535>> }
Bytes == {0, 255}

(* The files given to RTPFile.__init__, each by the lines of its first     *)
(* parameter block (key = value; a line without '=' has the key ""): the   *)
(* fixture of lines 346-357, blocks with seq and dseq, with timestamp,     *)
(* with TS, with a malformed line, with the PT of a codec of another       *)
(* sampling rate (14, MPA/90000), and the empty file.                      *)
RtpFiles ==
    { << [k |-> "PT", v |-> 0], [k |-> "seq", v |-> 256] >>,
      << [k |-> "PT", v |-> 0], [k |-> "seq", v |-> 5],
         [k |-> "dseq", v |-> 3] >>,
      << [k |-> "PT", v |-> 0], [k |-> "timestamp", v |-> 77] >>,
      << [k |-> "PT", v |-> 0], [k |-> "TS", v |-> 77] >>,
      << [k |-> "PT", v |-> 0], [k |-> "", v |-> 0] >>,
      << [k |-> "PT", v |-> 14] >>,
      << >> }

(* The constructor of one of the two classes that take PT and rtplen;     *)
(* RTPRandomStream.__init__ then sets eof to False (line 333).            *)
StreamInit(cls) ==
    /\ \E PT \in PTs, rtplen \in Rtplens, name \in CodecNames,
          seq \in Seqs, TS \in Timestamps :
          LET r == RTPStreamInitResult(cls, PT, rtplen, name, None, seq,
                                       Ssrc, TS)
          IN  IF r.exc # None
              THEN /\ sexc' = Some([cls |-> cls, exc |-> r.exc[1]])
                   /\ sphase' = "raised"
                   /\ UNCHANGED <<stream, seq0>>
              ELSE /\ stream' = IF cls = "RTPRandomStream"
                                THEN Some([r.obj[1] EXCEPT !.eof = FALSE])
                                ELSE r.obj
                   /\ sphase' = "ready"
                   /\ seq0' = seq
                   /\ UNCHANGED sexc
    /\ UNCHANGED <<lastpkt, nadv>>
    /\ UNCHANGED <<mediavars, rtpvars>>

RTPStreamInit ==
    /\ sphase = "new"
    /\ StreamInit("RTPStream")

RTPRandomStreamInit ==
    /\ sphase = "new"
    /\ StreamInit("RTPRandomStream")

(* RTPFile.__init__(rtpfile): line 246 calls RTPStream.__init__(self)      *)
(* without PT and rtplen, which raises TypeError before anything is read.  *)
(* The exception is kept with the argument of the call.                    *)
RTPFileInit ==
    /\ sphase = "new"
    /\ \E rtpfile \in RtpFiles :
          sexc' = Some([cls |-> "RTPFile", exc |-> "TypeError",
                        arg |-> rtpfile])
    /\ sphase' = "raised"
    /\ UNCHANGED <<stream, lastpkt, nadv, seq0>>
    /\ UNCHANGED <<mediavars, rtpvars>>

(* The payload every stream of the base class returns: b'' *)
basePayloads(s) == { << >> }

(* nextpayload(): b'' in RTPStream, rtplen random bytes in RTPRandomStream *)
nextpayloads(s) ==
    IF s.cls = "RTPRandomStream" THEN [1..s.rtplen -> Bytes] ELSE { << >> }

(* RTPStream.nextpacket *)
NextPacket ==
    /\ sphase = "ready"
    /\ nadv < MaxCalls
    /\ \E p \in nextpayloads(stream[1]) :
          lastpkt' = Some([rtp |-> [payload |-> p, PT |-> stream[1].PT,
                                    seq |-> stream[1].seq,
                                    TS |-> stream[1].TS,
                                    SSRC |-> stream[1].SSRC,
                                    version |-> 2, P |-> 0, X |-> 0,
                                    CC |-> 0, M |-> 0],
                           duration |-> Period])
    /\ stream' = Some(nextparams(stream[1]))
    /\ nadv' = nadv + 1
    /\ UNCHANGED <<sphase, sexc, seq0>>
    /\ UNCHANGED <<mediavars, rtpvars>>

RECURSIVE advance(_, _)
(* n calls of nextparams() in a row: the first half of them, then the     *)
(* rest (the test on h only makes the evaluation of h come first)         *)
advance(s, n) ==
    IF n = 0 THEN s
    ELSE IF n = 1 THEN nextparams(s)
    ELSE LET h == advance(s, n \div 2)
         IN  IF h.seq >= 0 THEN advance(h, n - (n \div 2)) ELSE h

(* 256 calls of nextparams() in a row, up to 65536 calls in all *)
NextParamsBurst ==
    /\ sphase = "ready"
    /\ nadv % 256 = 0
    /\ nadv < 65536
    /\ stream' = Some(advance(stream[1], 256))
    /\ nadv' = nadv + 256
    /\ UNCHANGED <<sphase, sexc, lastpkt, seq0>>
    /\ UNCHANGED <<mediavars, rtpvars>>

InitStream ==
    /\ MediaOff
    /\ RtpIdle
    /\ stream = None
    /\ sphase = "new"
    /\ sexc = None
    /\ lastpkt = None
    /\ nadv = 0
    /\ seq0 = 0

NextStream ==
    \/ RTPStreamInit
    \/ RTPRandomStreamInit
    \/ RTPFileInit
    \/ NextPacket
    \/ NextParamsBurst

SpecStream == InitStream /\ [][NextStream]_vars

(* The class of the stream whose construction was asked for *)
StreamClass ==
    IF stream # None THEN stream[1].cls
    ELSE IF sexc # None THEN sexc[1].cls ELSE "none"

(* C12: after exactly 65536 advances by the default nextparams the         *)
(* sequence number is the one the stream started with, whatever that was.  *)
C12_SeqReturnsAfter65536 ==
    (sphase = "ready" /\ nadv = 65536) => stream[1].seq = seq0

(* C14: the file-replay source over the fixture gives, call after call,    *)
(* the packets of sequence 0x100, 0x101, 0x103 with payloads 0123, 4567,   *)
(* abc, and its 4th call returns an empty payload with eof set.            *)
FixturePackets ==
    << [seq |-> 256, payload |-> <<48, 49, 50, 51>>],
       [seq |-> 257, payload |-> <<52, 53, 54, 55>>],
       [seq |-> 259, payload |-> <<97, 98, 99>>] >>

C14_FixtureReplay ==
    (StreamClass = "RTPFile" /\ sphase # "new") =>
        /\ sphase = "ready"
        /\ lastpkt # None =>
              \/ \E k \in 1..3 :
                    /\ lastpkt[1].rtp.seq = FixturePackets[k].seq
                    /\ lastpkt[1].rtp.payload = FixturePackets[k].payload
              \/ lastpkt[1].rtp.payload = << >> /\ stream[1].eof

(* C15: a constructed RTPRandomStream never has eof set, and every packet  *)
(* it returns, after any number of earlier calls, has a payload of exactly *)
(* rtplen bytes.                                                           *)
C15_RandomPayloadLength ==
    (sphase = "ready" /\ stream[1].cls = "RTPRandomStream") =>
        /\ stream[1].eof = FALSE
        /\ lastpkt # None =>
              Len(lastpkt[1].rtp.payload) = stream[1].rtplen

(* The second packet of a random stream of length 2 has been returned. *)
C15_Witness ==
    /\ sphase = "ready"
    /\ stream[1].cls = "RTPRandomStream"
    /\ stream[1].rtplen = 2
    /\ nadv = 2
    /\ lastpkt # None
    /\ lastpkt[1].rtp.payload = <<255, 0>>

(* C16: constructing a file-replay source succeeds and leaves a source     *)
(* that is not at eof and holds the first parameter block of the input     *)
(* (PT=0, seq=0x100 for the fixture).                                      *)
C16_FileSourceConstructs ==
    (StreamClass = "RTPFile" /\ sphase # "new") =>
        /\ sexc = None
        /\ stream # None
        /\ stream[1].eof = FALSE
        /\ stream[1].PT = 0
        /\ stream[1].seq = 256

-----------------------------------------------------------------------------
(* The RUNNING loop of Media.run *)

(* A step in which the worker leaves RUNNING, or writes to its end of the  *)
(* pipe while in RUNNING.                                                  *)
LeavesLoop ==
    /\ wstate = "RUNNING"
    /\ \/ wstate' # "RUNNING"
       \/ Len(toCtl') > Len(toCtl)
       \/ wlog' # wlog

(* The step receives the stop message (None) from the pipe, ends the loop  *)
(* and sends the final None.                                               *)
ConsumesStop ==
    /\ toWorker # << >>
    /\ Head(toWorker) = NoneMsg
    /\ toWorker' = Tail(toWorker)
    /\ wrecv' = Append(wrecv, Head(toWorker))
    /\ wstate' = "STOPPED"
    /\ toCtl' = Append(toCtl, NoneMsg)

StopOnlyExit == LeavesLoop => ConsumesStop

(* C21: the worker leaves RUNNING, and sends the final None, only in a     *)
(* step that receives a stop message from the pipe; a source at eof,       *)
(* inbound datagrams and the passing of time never end the loop.           *)
C21_OnlyStopEndsLoop == [][StopOnlyExit]_vars

(* The worker is still in the loop with a source at eof, after it has read *)
(* a datagram and the clock has reached its bound.                         *)
C21_Witness ==
    /\ wstate = "RUNNING"
    /\ rtpkind = "stream"
    /\ eof(rtpkind)
    /\ narrived >= 1
    /\ sockin = 0
    /\ now = MaxTime
    /\ Dones = {}

(* The worker's source reports eof. *)
AtEof == stream # None /\ stream[1].eof

NoSendAtEof ==
    (wstate = "RUNNING" /\ AtEof) =>
        /\ sent' = sent
        /\ stream' = stream

DrainsAtEof ==
    (wstate = "RUNNING" /\ AtEof /\ sockin > 0 /\ toWorker = << >>) =>
        ENABLED RunDrain

(* C22: with the source at eof no step of the loop sends a datagram or     *)
(* takes the source out of eof, and a readable socket is still read.       *)
C22_NoSendAfterEof == []DrainsAtEof /\ [][NoSendAtEof]_vars

(* The deadline of a source at eof has expired, nothing has been sent and  *)
(* the datagram that arrived has been read.                                *)
C22_Witness ==
    /\ wstate = "RUNNING"
    /\ AtEof
    /\ wakeuptime <= now
    /\ now >= Period
    /\ sent = << >>
    /\ narrived = 1
    /\ sockin = 0

(* What a step does to the wake-up time: the step that enters the loop    *)
(* sets it to the clock, a step of the loop that sends a packet adds the   *)
(* packet's duration, and every other step of the loop leaves it alone.    *)
DeadlineStep ==
    /\ (wstate # "RUNNING" /\ wstate' = "RUNNING") => wakeuptime' = now
    /\ (wstate = "RUNNING" /\ Len(sent') = Len(sent) + 1) =>
          wakeuptime' = wakeuptime + Period
    /\ (wstate = "RUNNING" /\ Len(sent') # Len(sent) + 1) =>
          wakeuptime' = wakeuptime

(* After n packets the wake-up time is n durations after the entry of the  *)
(* loop (time 0), whatever the clock shows.                                *)
DeadlineIsSum ==
    wstate = "RUNNING" => wakeuptime = Len(sent) * Period

(* C23: the wake-up time is the time the loop was entered plus the sum of  *)
(* the durations of the packets sent so far, and only the entry of the     *)
(* loop and a send change it.                                              *)
C23_AccumulativeDeadline == []DeadlineIsSum /\ [][DeadlineStep]_vars

(* Two packets are out, the second sent at time Period or later with a     *)
(* datagram read on the way, and the wake-up time is two durations.        *)
C23_Witness ==
    /\ wstate = "RUNNING"
    /\ Len(sent) = 2
    /\ wakeuptime = 2 * Period
    /\ now = MaxTime
    /\ narrived = 1
    /\ sockin = 0

(* What a step does while the worker is in the loop with a datagram       *)
(* waiting on the socket: at most one datagram leaves the socket, nothing  *)
(* is sent, the wake-up time and the stream stay as they are; and the      *)
(* step that takes the datagram keeps nothing of it: apart from the        *)
(* bookkeeping of a stop message received in the same iteration, the       *)
(* worker's state is unchanged.                                            *)
ReadableStep ==
    (wstate = "RUNNING" /\ sockin > 0) =>
        /\ sockin' >= sockin - 1
        /\ sent' = sent
        /\ wakeuptime' = wakeuptime
        /\ stream' = stream
        /\ sockin' < sockin =>
              /\ UNCHANGED <<remoteaddr, wlocalport, rtpkind, now>>
              /\ \/ UNCHANGED <<wstate, toWorker, wrecv, toCtl, wlog>>
                 \/ ConsumesStop

(* A datagram waiting on the socket is read by the worker's next step. *)
ReadableIsRead ==
    (wstate = "RUNNING" /\ sockin > 0) =>
        /\ ENABLED (RunDrain \/ RunStop)
        /\ ~ENABLED (RunSend \/ RunIdle)

IntendedSleep ==
    IF stream = None \/ stream[1].eof THEN None
    ELSE IF wakeuptime - now > 0 THEN Some(wakeuptime - now)
    ELSE Some(0)

(* C25: in the loop the timeout of wait() is indefinite when there is no   *)
(* source or the source is at eof, and max(0, wakeuptime - now) otherwise, *)
(* so that a worker with nothing left to send wakes on events only.        *)
C25_SleepTimeout ==
    wstate = "RUNNING" =>
        /\ sleep = IntendedSleep
        /\ (stream = None \/ stream[1].eof) => ~ENABLED RunIdle

-----------------------------------------------------------------------------
(* RTPStream.nextparams and RTPFile *)

(* (ts + n) mod 2^32 on a 32-bit value held as <<hi16, lo16>> *)
Add32(ts, n) ==
    LET l == ts[2] + (n % 65536)
    IN  <<(ts[1] + (n \div 65536) + (l \div 65536)) % 65536, l % 65536>>

(* A step that is one call of nextparams() on a constructed stream. *)
OneAdvance == sphase = "ready" /\ nadv' = nadv + 1

AdvanceWraps ==
    OneAdvance =>
        /\ stream'[1].seq = (stream[1].seq + 1) % 65536
        /\ stream'[1].TS = Add32(stream[1].TS, stream[1].numsamples)

(* C26: one call of nextparams() sets seq to (seq + 1) mod 2^16 and TS to  *)
(* (TS + numsamples) mod 2^32, whatever the values before the call, 65534  *)
(* and 2^32 - 1 included.                                                  *)
C26_AdvanceModulo == [][AdvanceWraps]_vars

(* An RTPFile constructor has been called. *)
FileBuilt == StreamClass = "RTPFile" /\ sphase # "new"

(* The value a parameter block gives to a key, None without such a line *)
Directive(block, key) ==
    LET is == { i \in 1..Len(block) : block[i].k = key }
    IN  IF is = {} THEN None
        ELSE Some(block[CHOOSE i \in is : \A j \in is : j <= i].v)

(* C27: a file source exists after its construction, and once the end of   *)
(* the input has been met in the search for a marker it is at eof and the  *)
(* nextpacket call that met it has yielded an empty payload.               *)
C27_EofYieldsEmptyPayload ==
    FileBuilt =>
        /\ sexc = None
        /\ stream # None
        /\ stream[1].f = << >> => stream[1].eof
        /\ (stream[1].eof /\ lastpkt # None) =>
              lastpkt[1].rtp.payload = << >>

(* C28: after the first parameter block of a file source, the sequence is  *)
(* the seq of the block, whatever its dseq, and without seq it has         *)
(* advanced by dseq, or by 1, modulo 2^16.                                 *)
C28_SeqDirective ==
    FileBuilt =>
        /\ sexc = None
        /\ stream # None
        /\ LET seq == Directive(stream[1].f, "seq")
               dseq == Directive(stream[1].f, "dseq")
           IN  IF seq # None THEN stream[1].seq = seq[1]
               ELSE stream[1].seq =
                      (seq0 + (IF dseq # None THEN dseq[1] ELSE 1)) % 65536

(* C29: after a parameter block with timestamp = v or TS = v the           *)
(* timestamp of a file source is v, whether or not numsamples or a         *)
(* sampling rate is known.                                                 *)
C29_TimestampDirective ==
    FileBuilt =>
        /\ sexc = None
        /\ stream # None
        /\ \A key \in {"timestamp", "TS"} :
              Directive(stream[1].f, key) # None =>
                  stream[1].TS = <<0, Directive(stream[1].f, key)[1]>>

(* C30: the parameter block of a file source raises exactly when there is  *)
(* no timestamp, no numsamples and no sampling rate in the codec name; a   *)
(* malformed line is skipped and raises nothing.                           *)
C30_HardFailure ==
    FileBuilt =>
        LET f == IF sexc # None THEN sexc[1].arg ELSE stream[1].f
            PT == Directive(f, "PT")
            name == IF PT = None THEN None ELSE codecOf(PT[1]).name
            rate == IF name = None THEN None ELSE samplingrate(name[1])
        IN  sexc # None <=> /\ Directive(f, "timestamp") = None
                            /\ Directive(f, "TS") = None
                            /\ Directive(f, "numsamples") = None
                            /\ rate = None

-----------------------------------------------------------------------------
(* The datagrams of Media.run *)

(* The messages with a remote address the worker has received *)
AddrsReceived == { i \in DOMAIN wrecv : wrecv[i].kind = "tuple" }

(* C31: the worker sends nothing before it has received the message with   *)
(* the remote address, every datagram it sends goes to the (ip, port) of   *)
(* that message, and an endpoint without a source sends nothing.           *)
C31_SendsOnlyToRemote ==
    /\ wstate \in {"BINDING", "BIND_FAILED", "WAITING_REMOTE"} =>
          sent = << >>
    /\ sent # << >> =>
          /\ AddrsReceived = {1}
          /\ \A i \in DOMAIN sent :
                sent[i] = <<wrecv[1].ip, wrecv[1].port>>
          /\ \E j \in DOMAIN clog :
                clog[j] = AddrMsg(sent[1][1], sent[1][2])
    /\ rtpkind = "none" => sent = << >>

(* Two datagrams have gone to the address of the message received first. *)
C31_Witness ==
    /\ Len(sent) = 2
    /\ wrecv # << >>
    /\ wrecv[1].kind = "tuple"
    /\ sent[1] = <<wrecv[1].ip, wrecv[1].port>>
    /\ sent[2] = sent[1]

(* A step of the loop that takes a message from the pipe sends nothing,   *)
(* ends the loop and sends the final None; a worker that has stopped       *)
(* sends nothing.                                                          *)
StopStep ==
    /\ (wstate = "RUNNING" /\ wrecv' # wrecv) =>
          /\ sent' = sent
          /\ stream' = stream
          /\ wstate' = "STOPPED"
          /\ toCtl' = Append(toCtl, NoneMsg)
    /\ wstate = "STOPPED" => (sent' = sent /\ wstate' = "STOPPED")

(* C32: the iteration that receives the stop message sends no datagram     *)
(* before the final None, whether or not a packet was due or the socket    *)
(* was readable, and nothing is sent afterwards.                           *)
C32_NoSendAfterStop == [][StopStep]_vars

(* The worker has stopped while its next packet was due and not sent. *)
C32_Witness ==
    /\ wstate = "STOPPED"
    /\ rtpkind = "random"
    /\ Len(sent) = 1
    /\ wakeuptime <= now
    /\ Len(wrecv) = 2
    /\ wrecv[2] = NoneMsg
    /\ narrived = 1

(* C33: a packet of a source that is not at eof, once due, is eventually  *)
(* sent unless the worker is stopped first, however much inbound traffic   *)
(* there is.                                                               *)
C33_SendNotStarved ==
    \A n \in 0..(MaxSent - 1) :
        (/\ wstate = "RUNNING"
         /\ rtpkind = "random"
         /\ Len(sent) = n
         /\ wakeuptime <= now) ~> (Len(sent) > n \/ wstate # "RUNNING")

-----------------------------------------------------------------------------
(* Media.transmit after a call that found no remote address *)

(* A setparticipantoffer with a c= and an m= line sets the remote address. *)
OfferTakesEffect ==
    ENABLED (/\ SetParticipantOffer
             /\ remoteip' = Some("10.0.0.2")
             /\ remoteport' = Some(6000))

(* transmit() sends the remote address to the worker. *)
TransmitSendsAddress ==
    ENABLED (/\ Transmit
             /\ toWorker' = Append(toWorker, AddrMsg(remoteip[1],
                                                     remoteport[1])))

(* C34: as long as no address has been sent to the worker, whatever calls  *)
(* of transmit() came before, a setparticipantoffer with valid c= and m=   *)
(* lines sets the remote address and the transmit() after it sends the     *)
(* address to the worker.                                                  *)
C34_TransmitStartsLater ==
    (ctl = "idle" /\ NAddr = 0) =>
        /\ OfferTakesEffect
        /\ (remoteip # None /\ remoteport # None) => TransmitSendsAddress

-----------------------------------------------------------------------------
(* A file source in the worker's loop *)

(* C35: a file source can be built and replayed, and every packet its      *)
(* nextpacket hands to the loop, which sends each of them (lines 139-140), *)
(* has a payload read up to its marker: none is the empty payload of a     *)
(* call that met the end of the input and set eof.                         *)
C35_OnlyCompletePayloadsSent ==
    FileBuilt =>
        /\ sexc = None
        /\ stream # None
        /\ stream[1].cls = "RTPFile"
        /\ lastpkt # None =>
              ~(stream[1].eof /\ lastpkt[1].rtp.payload = << >>)

(* C36: after a parameter block with a PT directive and neither           *)
(* numsamples nor a timestamp, the timestamp of a file source advances by  *)
(* int(sampling rate * period) for the sampling rate of the new codec.     *)
C36_NumsamplesFollowsCodec ==
    FileBuilt =>
        /\ sexc = None
        /\ stream # None
        /\ LET PT == Directive(stream[1].f, "PT")
           IN  (/\ PT # None
                /\ Directive(stream[1].f, "numsamples") = None
                /\ Directive(stream[1].f, "timestamp") = None
                /\ Directive(stream[1].f, "TS") = None) =>
                   /\ stream[1].codec = codecOf(PT[1])
                   /\ stream[1].numsamples =
                         numsamplesOf(samplingrate(codecOf(PT[1]).name[1])[1])

====
